---- MODULE Spec2Model ----
(***************************************************************************)
(* Model of the send-tx service: the POST /send-tx handler (app/main.py),  *)
(* the transactions table with its composite unique constraint             *)
(* (app/models.py) and the RPC client it calls (app/rpc_client.py).        *)
(*                                                                         *)
(* Each request is a process that walks through the handler: fast          *)
(* idempotency lookup, external call, insert + commit, and on an           *)
(* IntegrityError a rollback followed by a re-query.  Requests interleave  *)
(* freely between these steps; every database statement is atomic, and     *)
(* db.add/db.commit/db.refresh is one write that commits, is rejected by   *)
(* the unique constraint, or fails without effect.  tx_id values (uuid4)   *)
(* are fresh; the hash an RPC call returns is any hash.                    *)
(*                                                                         *)
(* Optional[str] values are sets of at most one string: {} is None,        *)
(* {""} the empty string, {"abc-123"} the string "abc-123".                *)
(***************************************************************************)
EXTENDS Integers, FiniteSets, Sequences, TLC

\* ---- bounds ----
NumReqs == 2
MaxHash == 2

Reqs   == 1..NumReqs
Hashes == 1..MaxHash

\* ---- request values ----
None == {}

\* The request of the test suite, and the requests that differ from it in
\* exactly one component of (chain, from_address, idempotency_key): another
\* chain, another sender, another key, the empty key, no key.
BaseRequest ==
    [chain |-> "sepolia", from_address |-> "0x11", to_address |-> "0x22",
     value_wei |-> 1000, data |-> "0x", idempotency_key |-> {"abc-123"}]

SendTxRequest ==
    {BaseRequest,
     [BaseRequest EXCEPT !.chain = "polygon"],
     [BaseRequest EXCEPT !.from_address = "0x33"],
     [BaseRequest EXCEPT !.idempotency_key = {"xyz-789"}],
     [BaseRequest EXCEPT !.idempotency_key = {""}],
     [BaseRequest EXCEPT !.idempotency_key = None]}

NoRequest == [chain |-> "", from_address |-> "", to_address |-> "",
              value_wei |-> 0, data |-> "", idempotency_key |-> None]

\* Python truthiness of an Optional[str]: None and "" are both falsy.
Truthy(key) == key # None /\ key # {""}

\* ---- request validation (app/schemas.py) ----
\* In the validators a str is a sequence of one-character strings.

HexDigits ==
    {"0", "1", "2", "3", "4", "5", "6", "7", "8", "9",
     "a", "b", "c", "d", "e", "f", "A", "B", "C", "D", "E", "F"}

Whitespace == {" ", "\t", "\n", "\r", "\f"}

\* v.startswith("0x")
StartsWith0x(v) == Len(v) >= 2 /\ v[1] = "0" /\ v[2] = "x"

\* v[n:]
From(v, n) == SubSeq(v, n + 1, Len(v))

RECURSIVE LStrip(_)
LStrip(v) == IF Len(v) > 0 /\ v[1] \in Whitespace THEN LStrip(Tail(v)) ELSE v

RECURSIVE RStrip(_)
RStrip(v) ==
    IF Len(v) > 0 /\ v[Len(v)] \in Whitespace
    THEN RStrip(SubSeq(v, 1, Len(v) - 1)) ELSE v

\* int(v, 16) does not raise ValueError.  Python skips surrounding
\* whitespace, one sign, a "0x" or "0X" prefix and one underscore after the
\* prefix; what is left must be hex digits, with single underscores between
\* digits allowed.
ParsesBase16(v) ==
    LET stripped == RStrip(LStrip(v))
        unsigned == IF Len(stripped) > 0 /\ stripped[1] \in {"+", "-"}
                    THEN Tail(stripped) ELSE stripped
        prefixed == /\ Len(unsigned) >= 2 /\ unsigned[1] = "0"
                    /\ unsigned[2] \in {"x", "X"}
        afterPfx == IF prefixed THEN From(unsigned, 2) ELSE unsigned
        digits   == IF prefixed /\ Len(afterPfx) > 0 /\ afterPfx[1] = "_"
                    THEN Tail(afterPfx) ELSE afterPfx
    IN  /\ Len(digits) > 0
        /\ \A i \in 1..Len(digits) : digits[i] \in HexDigits \cup {"_"}
        /\ digits[1] # "_"
        /\ digits[Len(digits)] # "_"
        /\ \A i \in 1..(Len(digits) - 1) : ~(digits[i] = "_" /\ digits[i + 1] = "_")

AllowedChains == {"ethereum", "polygon", "sepolia"}

AddressLen == 42

validate_chain(v) == v \in AllowedChains

validate_address(v) ==
    /\ StartsWith0x(v)
    /\ Len(v) = AddressLen
    /\ ParsesBase16(From(v, 2))

validate_value(v) == v >= 0

validate_data(v) == StartsWith0x(v)

\* The body passes every field validator of SendTxRequest.
Validates(body) ==
    /\ validate_chain(body.chain)
    /\ validate_address(body.from_address)
    /\ validate_address(body.to_address)
    /\ validate_value(body.value_wei)
    /\ validate_data(body.data)

\* c repeated n times.
Rep(c, n) == [i \in 1..n |-> c]

\* The body of the test suite and bodies that differ from it in one field.
RawBase ==
    [chain |-> "sepolia",
     from_address |-> <<"0", "x">> \o Rep("1", 40),
     to_address |-> <<"0", "x">> \o Rep("2", 40),
     value_wei |-> 1000, data |-> <<"0", "x">>, idempotency_key |-> {"abc-123"}]

RawBodies ==
    {RawBase,
     [RawBase EXCEPT !.idempotency_key = None],
     [RawBase EXCEPT !.data = <<"0", "x", "a", "b">>],
     [RawBase EXCEPT !.value_wei = 0],
     [RawBase EXCEPT !.chain = "invalid_chain"],
     [RawBase EXCEPT !.from_address = Rep("1", 40)],
     [RawBase EXCEPT !.from_address = <<"0", "x">> \o Rep("1", 39)],
     [RawBase EXCEPT !.from_address = <<"0", "x", "g">> \o Rep("1", 39)],
     [RawBase EXCEPT !.to_address = <<"0", "X">> \o Rep("2", 40)],
     [RawBase EXCEPT !.to_address = <<"0", "x">> \o Rep("2", 41)],
     [RawBase EXCEPT !.value_wei = -1],
     [RawBase EXCEPT !.data = <<>>],
     [RawBase EXCEPT !.data = <<"a", "b">>],
     [RawBase EXCEPT !.from_address = <<"0", "x", "+">> \o Rep("1", 39)],
     [RawBase EXCEPT !.from_address = <<"0", "x", " ">> \o Rep("1", 39)],
     [RawBase EXCEPT !.to_address = <<"0", "x", "2", "_">> \o Rep("2", 38)],
     [RawBase EXCEPT !.to_address = <<"0", "x", "0", "x">> \o Rep("2", 38)],
     [RawBase EXCEPT !.to_address = <<"0", "x", "_">> \o Rep("2", 39)]}

HTTP_200_OK  == 200
HTTP_201     == 201
HTTP_422     == 422
HTTP_500     == 500

NoResponse == [code |-> 0, tx_id |-> 0, tx_hash |-> 0, status |-> "", detail |-> ""]

SendTxResponse(code, rec) ==
    [code |-> code, tx_id |-> rec.tx_id, tx_hash |-> rec.tx_hash,
     status |-> rec.status, detail |-> ""]

\* Mutant: the replay returns keep the route's default status (always 201).
ReplayResponseDefaultStatus(existing) == SendTxResponse(HTTP_201, existing)

\* The response of the two replay returns (200 with the existing row).
ReplayResponse(existing) == SendTxResponse(HTTP_200_OK, existing)

\* Mutant: the final return sets the status of a replay.
CreatedResponseAsReplay(db_tx) == SendTxResponse(HTTP_200_OK, db_tx)

\* The response of the final return (the route's default status, 201).
CreatedResponse(db_tx) == SendTxResponse(HTTP_201, db_tx)

\* The response to a body that fails validation.
ValidationError ==
    [code |-> HTTP_422, tx_id |-> 0, tx_hash |-> 0, status |-> "", detail |-> "validation"]

ErrorResponse(detail) ==
    [code |-> HTTP_500, tx_id |-> 0, tx_hash |-> 0, status |-> "", detail |-> detail]

VARIABLES
    store,      \* rows of the transactions table (committed)
    nextId,     \* source of fresh tx_id values (uuid4)
    pc,         \* pc[r]: where request r is in send_tx
    request,    \* request[r]: the validated body of request r
    tx_hash,    \* tx_hash[r]: the local tx_hash of request r (0: not set)
    resp,       \* resp[r]: the response of request r once pc[r] = "done"
    calls,      \* calls[r]: invocations of rpc_client.send_transaction by r
    rpcHash,    \* rpcHash[r]: hash returned to r by a completed call (0: none)
    committed,  \* committed[r]: tx_id of the row r's own insert committed (0: none)
    path,       \* path[r]: how r left the handler
    before      \* before[r]: requests that had returned when r arrived

vars == <<store, nextId, pc, request, tx_hash, resp, calls, rpcHash,
          committed, path, before>>

\* ---- the transactions table ----

\* Mutant: the row is written before the hash is known (a "pending" row).
TransactionPendingHash(id, req, hash) ==
    [tx_id |-> id, chain |-> req.chain, from_address |-> req.from_address,
     to_address |-> req.to_address, value_wei |-> req.value_wei,
     data |-> req.data, idempotency_key |-> req.idempotency_key,
     tx_hash |-> 0, status |-> "submitted"]

Transaction(id, req, hash) ==
    [tx_id |-> id, chain |-> req.chain, from_address |-> req.from_address,
     to_address |-> req.to_address, value_wei |-> req.value_wei,
     data |-> req.data, idempotency_key |-> req.idempotency_key,
     tx_hash |-> hash, status |-> "submitted"]

\* Mutant: the filter leaves out the chain column.
MatchingIgnoresChain(rows, req) ==
    {t \in rows : /\ t.from_address = req.from_address
                  /\ t.idempotency_key = req.idempotency_key}

\* Mutant: the filter leaves out the idempotency_key column.
MatchingAnyKey(rows, req) ==
    {t \in rows : /\ t.chain = req.chain
                  /\ t.from_address = req.from_address}

\* The filter of both queries: equality on the three columns
\* (comparison with None is rendered IS NULL).
Matching(rows, req) ==
    {t \in rows : /\ t.chain = req.chain
                  /\ t.from_address = req.from_address
                  /\ t.idempotency_key = req.idempotency_key}

\* Mutant: the constraint compares NULL keys as equal values.
ViolatesUniqueNullsEqual(rows, row) ==
    \E t \in rows : /\ t.chain = row.chain
                    /\ t.from_address = row.from_address
                    /\ t.idempotency_key = row.idempotency_key

\* Mutant: the constraint leaves out the from_address column.
ViolatesUniqueIgnoresSender(rows, row) ==
    /\ row.idempotency_key # None
    /\ \E t \in rows : /\ t.chain = row.chain
                       /\ t.idempotency_key = row.idempotency_key

\* Mutant: the table has no unique constraint.
ViolatesUniqueNever(rows, row) == FALSE

\* Mutant: the constraint exempts the empty string as it exempts NULL.
ViolatesUniqueEmptyExempt(rows, row) ==
    /\ Truthy(row.idempotency_key)
    /\ \E t \in rows : /\ t.chain = row.chain
                       /\ t.from_address = row.from_address
                       /\ t.idempotency_key = row.idempotency_key

\* UniqueConstraint('chain', 'from_address', 'idempotency_key'): rows with a
\* NULL idempotency_key never conflict.
ViolatesUnique(rows, row) ==
    /\ row.idempotency_key # None
    /\ \E t \in rows : /\ t.chain = row.chain
                       /\ t.from_address = row.from_address
                       /\ t.idempotency_key = row.idempotency_key

\* The table after a committed INSERT of row.
Inserted(rows, row) == rows \cup {row}

Init ==
    /\ store = {}
    /\ nextId = 1
    /\ pc = [r \in Reqs |-> "idle"]
    /\ request = [r \in Reqs |-> NoRequest]
    /\ tx_hash = [r \in Reqs |-> 0]
    /\ resp = [r \in Reqs |-> NoResponse]
    /\ calls = [r \in Reqs |-> 0]
    /\ rpcHash = [r \in Reqs |-> 0]
    /\ committed = [r \in Reqs |-> 0]
    /\ path = [r \in Reqs |-> "none"]
    /\ before = [r \in Reqs |-> {}]

\* Mutant: the read path is missing; every request goes on to the RPC call.
FastCheckSkipped(r) ==
    /\ pc[r] = "idle"
    /\ \A q \in Reqs : q < r => pc[q] # "idle"
    /\ \E req \in SendTxRequest : request' = [request EXCEPT ![r] = req]
    /\ pc' = [pc EXCEPT ![r] = "rpc"]
    /\ before' = [before EXCEPT ![r] = {q \in Reqs : pc[q] = "done"}]
    /\ UNCHANGED <<store, nextId, tx_hash, resp, calls, rpcHash, committed, path>>

\* 1. Idempotency check (read path) of the handler started on the
\* validated body req.
IdempotencyCheck(r, req) ==
    /\ request' = [request EXCEPT ![r] = req]
    /\ IF Truthy(req.idempotency_key) /\ Matching(store, req) # {}
       THEN \E existing \in Matching(store, req) :
              /\ resp' = [resp EXCEPT ![r] = ReplayResponse(existing)]
              /\ pc' = [pc EXCEPT ![r] = "done"]
              /\ path' = [path EXCEPT ![r] = "fast"]
       ELSE /\ pc' = [pc EXCEPT ![r] = "rpc"]
            /\ UNCHANGED <<resp, path>>
    /\ before' = [before EXCEPT ![r] = {q \in Reqs : pc[q] = "done"}]
    /\ UNCHANGED <<store, nextId, tx_hash, calls, rpcHash, committed>>

\* The handler starts on a validated body; requests are numbered in the
\* order in which their handlers start.
FastCheck(r) ==
    /\ pc[r] = "idle"
    /\ \A q \in Reqs : q < r => pc[q] # "idle"
    /\ \E req \in SendTxRequest : IdempotencyCheck(r, req)

\* 2. rpc_client.send_transaction returns a hash: any hash, one returned
\* before included (the test suite's mock returns the same hash each time).
SendTransactionOk(r) ==
    /\ pc[r] = "rpc"
    /\ \E h \in Hashes :
         /\ tx_hash' = [tx_hash EXCEPT ![r] = h]
         /\ rpcHash' = [rpcHash EXCEPT ![r] = h]
    /\ calls' = [calls EXCEPT ![r] = @ + 1]
    /\ pc' = [pc EXCEPT ![r] = "write"]
    /\ UNCHANGED <<store, nextId, request, resp, committed, path, before>>

\* Mutant: a failed RPC call is recorded as a row without a hash.
SendTransactionFailRecorded(r) ==
    /\ pc[r] = "rpc"
    /\ calls' = [calls EXCEPT ![r] = @ + 1]
    /\ pc' = [pc EXCEPT ![r] = "done"]
    /\ resp' = [resp EXCEPT ![r] = ErrorResponse("rpc error")]
    /\ path' = [path EXCEPT ![r] = "rpc_error"]
    /\ store' = store \cup {[tx_id |-> nextId, chain |-> request[r].chain,
                             from_address |-> request[r].from_address,
                             to_address |-> request[r].to_address,
                             value_wei |-> request[r].value_wei,
                             data |-> request[r].data,
                             idempotency_key |-> request[r].idempotency_key,
                             tx_hash |-> 0, status |-> "failed"]}
    /\ nextId' = nextId + 1
    /\ UNCHANGED <<request, tx_hash, rpcHash, committed, before>>

\* 2. rpc_client.send_transaction raises: the exception leaves send_tx.
SendTransactionFail(r) ==
    /\ pc[r] = "rpc"
    /\ calls' = [calls EXCEPT ![r] = @ + 1]
    /\ pc' = [pc EXCEPT ![r] = "done"]
    /\ resp' = [resp EXCEPT ![r] = ErrorResponse("rpc error")]
    /\ path' = [path EXCEPT ![r] = "rpc_error"]
    /\ UNCHANGED <<store, nextId, request, tx_hash, rpcHash, committed, before>>

\* 3. db.add, db.commit, db.refresh succeed; 201 with the new row.
WriteCommit(r) ==
    /\ pc[r] = "write"
    /\ LET db_tx == Transaction(nextId, request[r], tx_hash[r]) IN
         /\ ~ViolatesUnique(store, db_tx)
         /\ store' = Inserted(store, db_tx)
         /\ committed' = [committed EXCEPT ![r] = db_tx.tx_id]
         /\ resp' = [resp EXCEPT ![r] = CreatedResponse(db_tx)]
    /\ nextId' = nextId + 1
    /\ pc' = [pc EXCEPT ![r] = "done"]
    /\ path' = [path EXCEPT ![r] = "created"]
    /\ UNCHANGED <<request, tx_hash, calls, rpcHash, before>>

\* Mutant: after the rollback the handler starts over from the RPC call.
WriteConflictRetries(r) ==
    /\ pc[r] = "write"
    /\ ViolatesUnique(store, Transaction(nextId, request[r], tx_hash[r]))
    /\ pc' = [pc EXCEPT ![r] = "rpc"]
    /\ UNCHANGED <<store, nextId, request, tx_hash, resp, calls, rpcHash, committed, path, before>>

\* Mutant: the rollback is missing and the rejected row stays in the table.
WriteConflictNoRollback(r) ==
    /\ pc[r] = "write"
    /\ ViolatesUnique(store, Transaction(nextId, request[r], tx_hash[r]))
    /\ store' = store \cup {Transaction(nextId, request[r], tx_hash[r])}
    /\ nextId' = nextId + 1
    /\ pc' = [pc EXCEPT ![r] = "requery"]
    /\ UNCHANGED <<request, tx_hash, resp, calls, rpcHash, committed, path, before>>

\* 3./4. db.commit raises IntegrityError; db.rollback.
WriteConflict(r) ==
    /\ pc[r] = "write"
    /\ ViolatesUnique(store, Transaction(nextId, request[r], tx_hash[r]))
    /\ pc' = [pc EXCEPT ![r] = "requery"]
    /\ UNCHANGED <<store, nextId, request, tx_hash, resp, calls, rpcHash, committed, path, before>>

\* Mutant: every exception of the write is caught and handled as a conflict.
WriteFailAsConflict(r) ==
    /\ pc[r] = "write"
    /\ pc' = [pc EXCEPT ![r] = "requery"]
    /\ UNCHANGED <<store, nextId, request, tx_hash, resp, calls, rpcHash, committed, path, before>>

\* 3. db.commit raises an error other than IntegrityError (storage
\* unavailable): nothing is written and the exception leaves send_tx.
WriteFail(r) ==
    /\ pc[r] = "write"
    /\ pc' = [pc EXCEPT ![r] = "done"]
    /\ resp' = [resp EXCEPT ![r] = ErrorResponse("store error")]
    /\ path' = [path EXCEPT ![r] = "store_error"]
    /\ UNCHANGED <<store, nextId, request, tx_hash, calls, rpcHash, committed, before>>

\* Mutant: the conflict path answers with the hash of its own RPC call.
RequeryOwnHash(r) ==
    /\ pc[r] = "requery"
    /\ IF Matching(store, request[r]) # {}
       THEN \E existing \in Matching(store, request[r]) :
              /\ resp' = [resp EXCEPT ![r] =
                            [ReplayResponse(existing) EXCEPT !.tx_hash = tx_hash[r]]]
              /\ path' = [path EXCEPT ![r] = "conflict"]
       ELSE /\ resp' = [resp EXCEPT ![r] = ErrorResponse("Database integrity error")]
            /\ path' = [path EXCEPT ![r] = "integrity_error"]
    /\ pc' = [pc EXCEPT ![r] = "done"]
    /\ UNCHANGED <<store, nextId, request, tx_hash, calls, rpcHash, committed, before>>

\* 4. Re-query the row that caused the conflict.
Requery(r) ==
    /\ pc[r] = "requery"
    /\ IF Matching(store, request[r]) # {}
       THEN \E existing \in Matching(store, request[r]) :
              /\ resp' = [resp EXCEPT ![r] = ReplayResponse(existing)]
              /\ path' = [path EXCEPT ![r] = "conflict"]
       ELSE /\ resp' = [resp EXCEPT ![r] = ErrorResponse("Database integrity error")]
            /\ path' = [path EXCEPT ![r] = "integrity_error"]
    /\ pc' = [pc EXCEPT ![r] = "done"]
    /\ UNCHANGED <<store, nextId, request, tx_hash, calls, rpcHash, committed, before>>

Next ==
    \E r \in Reqs :
        \/ FastCheck(r)
        \/ SendTransactionOk(r)
        \/ SendTransactionFail(r)
        \/ WriteCommit(r)
        \/ WriteConflict(r)
        \/ WriteFail(r)
        \/ Requery(r)

Spec == Init /\ [][Next]_vars

\* ---- scheduling ----

\* A step of the handler of a request that has started.
Run(r) ==
    \/ SendTransactionOk(r)
    \/ SendTransactionFail(r)
    \/ WriteCommit(r)
    \/ WriteConflict(r)
    \/ WriteFail(r)
    \/ Requery(r)

\* Each handler runs on a worker of its own, and the RPC call and every
\* database statement return or raise: a started handler keeps taking steps.
\* Nothing obliges a further request to arrive.
FairSpec == Spec /\ \A r \in Reqs : WF_vars(Run(r))

\* ---- POST /send-tx with request validation ----

\* A body is posted.  If it fails validation the route answers 422 and
\* send_tx is not called; otherwise send_tx starts on it.
Post(r) ==
    /\ pc[r] = "idle"
    /\ \A q \in Reqs : q < r => pc[q] # "idle"
    /\ \E body \in RawBodies :
         IF Validates(body)
         THEN IdempotencyCheck(r, body)
         ELSE /\ request' = [request EXCEPT ![r] = body]
              /\ resp' = [resp EXCEPT ![r] = ValidationError]
              /\ pc' = [pc EXCEPT ![r] = "done"]
              /\ path' = [path EXCEPT ![r] = "invalid"]
              /\ before' = [before EXCEPT ![r] = {q \in Reqs : pc[q] = "done"}]
              /\ UNCHANGED <<store, nextId, tx_hash, calls, rpcHash, committed>>

PostNext ==
    \E r \in Reqs :
        \/ Post(r)
        \/ SendTransactionOk(r)
        \/ SendTransactionFail(r)
        \/ WriteCommit(r)
        \/ WriteConflict(r)
        \/ WriteFail(r)
        \/ Requery(r)

\* The service with request validation in front of the handler.
PostSpec == Init /\ [][PostNext]_vars

\* ---- send_tx without the fast check ----

\* The handler with step 1 left out: it starts on a validated body and goes
\* on to the RPC call whatever the table holds.
WithoutFastCheck(r) ==
    /\ pc[r] = "idle"
    /\ \A q \in Reqs : q < r => pc[q] # "idle"
    /\ \E req \in SendTxRequest : request' = [request EXCEPT ![r] = req]
    /\ pc' = [pc EXCEPT ![r] = "rpc"]
    /\ before' = [before EXCEPT ![r] = {q \in Reqs : pc[q] = "done"}]
    /\ UNCHANGED <<store, nextId, tx_hash, resp, calls, rpcHash, committed, path>>

NextWithoutFastCheck ==
    \E r \in Reqs :
        \/ WithoutFastCheck(r)
        \/ SendTransactionOk(r)
        \/ SendTransactionFail(r)
        \/ WriteCommit(r)
        \/ WriteConflict(r)
        \/ WriteFail(r)
        \/ Requery(r)

SpecWithoutFastCheck == Init /\ [][NextWithoutFastCheck]_vars

TypeOK ==
    /\ pc \in [Reqs -> {"idle", "rpc", "write", "requery", "done"}]
    /\ \A r \in Reqs : calls[r] \in 0..1
    /\ \A t \in store : t.tx_id \in 1..(nextId - 1)

\* ---- vocabulary of the properties ----

Done(r)    == pc[r] = "done"
Started(r) == pc[r] # "idle"
Success(r) == Done(r) /\ resp[r].code \in {HTTP_200_OK, HTTP_201}
Keyed(r)   == Started(r) /\ request[r].idempotency_key # None

\* r and q carry the same (chain, from_address, idempotency_key).
SameTriple(r, q) ==
    /\ Started(r) /\ Started(q)
    /\ request[r].chain = request[q].chain
    /\ request[r].from_address = request[q].from_address
    /\ request[r].idempotency_key = request[q].idempotency_key

\* The rows of r's triple.
RowsOf(r) == Matching(store, request[r])

\* A row of r's triple was committed before r's handler started: its
\* inserter had returned (the commit and the 201 are one step).
CommittedBefore(r) ==
    {q \in before[r] : SameTriple(r, q) /\ committed[q] # 0}

AllDone == \A r \in Reqs : Done(r)

\* The requests that carry r's triple.
Group(r) == {q \in Reqs : SameTriple(r, q)}

\* No request of G had returned when another request of G started.
Concurrent(G) == \A r, q \in G : q \notin before[r]

\* ---- C1 ----
\* C1 (as stated): for a triple with a present key, send_transaction is
\* invoked at most once over all the requests that carry the triple.
C1_AtMostOneCallPerTriple ==
    \A r, q \in Reqs :
        (r # q /\ Keyed(r) /\ SameTriple(r, q)) => calls[r] + calls[q] <= 1

\* C1 (amended): each request invokes send_transaction at most once and
\* never when its fast lookup ran after a row of its triple was committed;
\* of the invocations made for a keyed triple, at most one has its result
\* stored.
C1_CallsBoundedByLookupMisses ==
    /\ \A r \in Reqs : calls[r] <= 1
    /\ \A r \in Reqs :
         (Keyed(r) /\ Truthy(request[r].idempotency_key) /\ CommittedBefore(r) # {})
            => calls[r] = 0
    /\ \A r, q \in Reqs :
         (r # q /\ Keyed(r) /\ SameTriple(r, q) /\ committed[r] # 0)
            => committed[q] = 0

\* Two requests of one keyed triple both invoked send_transaction, and one
\* of the two results was stored.
C1_Witness ==
    \E r, q \in Reqs :
        /\ r # q /\ Keyed(r) /\ SameTriple(r, q)
        /\ calls[r] = 1 /\ calls[q] = 1
        /\ committed[r] # 0 /\ Done(q)

\* ---- C2 ----
\* C2 (as stated): once all requests have finished, every keyed triple that
\* two or more requests carried concurrently has exactly one row, and every
\* successful response for the triple carries that row's tx_id and tx_hash.
C2_ExactlyOneRowWhenAllDone ==
    AllDone =>
        \A r \in Reqs : (Keyed(r) /\ Cardinality(Group(r)) >= 2 /\ Concurrent(Group(r))) =>
            /\ Cardinality(RowsOf(r)) = 1
            /\ Success(r) => \E t \in RowsOf(r) :
                                /\ resp[r].tx_id = t.tx_id
                                /\ resp[r].tx_hash = t.tx_hash

\* C2 (amended): once all requests have finished, a keyed triple has exactly
\* one row if some request carrying it returned successfully and no row
\* otherwise; every successful response for the triple carries that row's
\* tx_id and tx_hash, so no two of them differ.
C2_OneWinnerPerTriple ==
    AllDone =>
        \A r \in Reqs : Keyed(r) =>
            /\ Cardinality(RowsOf(r)) =
                 (IF \E q \in Reqs : SameTriple(r, q) /\ Success(q) THEN 1 ELSE 0)
            /\ Success(r) => \E t \in RowsOf(r) :
                                /\ resp[r].tx_id = t.tx_id
                                /\ resp[r].tx_hash = t.tx_hash
            /\ \A q \in Reqs :
                 (SameTriple(r, q) /\ Success(r) /\ Success(q)) =>
                     /\ resp[r].tx_id = resp[q].tx_id
                     /\ resp[r].tx_hash = resp[q].tx_hash

\* All requests have finished; two of them raced on one keyed triple with
\* different hashes from their RPC calls, and both returned successfully.
C2_Witness ==
    /\ AllDone
    /\ \E r, q \in Reqs :
         /\ r # q /\ Keyed(r) /\ SameTriple(r, q)
         /\ q \notin before[r] /\ r \notin before[q]
         /\ rpcHash[r] # 0 /\ rpcHash[q] # 0 /\ rpcHash[r] # rpcHash[q]
         /\ Success(r) /\ Success(q)

\* ---- C3 ----
\* C3: any two distinct rows with a non-null idempotency_key differ in chain,
\* from_address or idempotency_key; an insert with a null key is never
\* rejected, so rows with a null key may share chain and from_address.
C3_UniqueTriple ==
    /\ \A t, u \in store :
         (t # u /\ t.idempotency_key # None /\ u.idempotency_key # None) =>
             \/ t.chain # u.chain
             \/ t.from_address # u.from_address
             \/ t.idempotency_key # u.idempotency_key
    /\ \A r \in Reqs :
         (Started(r) /\ request[r].idempotency_key = None) =>
             /\ pc[r] # "requery"
             /\ path[r] \notin {"conflict", "integrity_error"}

\* An insert was rejected by the constraint: the request holds a hash, its
\* triple has a row, and it is about to re-query.
C3_Witness ==
    \E r \in Reqs :
        /\ pc[r] = "requery"
        /\ request[r].idempotency_key # None
        /\ Cardinality(RowsOf(r)) = 1

\* ---- C4 ----
\* C4: when a request with a present (non-null) key is submitted again after
\* its first submission returned 201, and the second submission returns
\* successfully, the second returns 200 with the same tx_id and tx_hash and
\* send_transaction was invoked exactly once over the two.
C4_SequentialReplayCallsOnce ==
    \A r, q \in Reqs :
        (/\ q \in before[r] /\ request[q] = request[r]
         /\ Keyed(r) /\ resp[q].code = HTTP_201 /\ Success(r))
        => /\ resp[r].code = HTTP_200_OK
           /\ resp[r].tx_id = resp[q].tx_id
           /\ resp[r].tx_hash = resp[q].tx_hash
           /\ calls[q] + calls[r] = 1

\* ---- C5 ----
\* C5: a finished request has status 201 exactly if its own insert was
\* committed, and no request's insert is committed without the request
\* having finished with 201; such a request made exactly one RPC call and
\* added exactly one row, and its response carries that row's tx_id and
\* tx_hash, the hash being the one its own call returned.
C5_CreatedIffOwnInsert ==
    /\ \A r \in Reqs :
         /\ (Done(r) /\ resp[r].code = HTTP_201) <=> committed[r] # 0
         /\ committed[r] # 0 =>
              /\ calls[r] = 1
              /\ Cardinality({t \in store : t.tx_id = committed[r]}) = 1
              /\ resp[r].tx_id = committed[r]
              /\ resp[r].tx_hash = rpcHash[r]
              /\ resp[r].status = "submitted"
              /\ \A t \in store : t.tx_id = committed[r] =>
                     /\ t.tx_hash = rpcHash[r]
                     /\ t.chain = request[r].chain
                     /\ t.from_address = request[r].from_address
                     /\ t.idempotency_key = request[r].idempotency_key
    /\ Cardinality(store) = Cardinality({r \in Reqs : committed[r] # 0})

\* A request returned 201 while another request of the same triple, holding
\* a hash of its own, did not.
C5_Witness ==
    \E r, q \in Reqs :
        /\ r # q /\ SameTriple(r, q)
        /\ Done(r) /\ resp[r].code = HTTP_201
        /\ Done(q) /\ resp[q].code = HTTP_200_OK /\ rpcHash[q] # 0

\* ---- C6 ----
\* C6 (as stated): a request that returns 200 made no RPC call.
C6_ReplayMadeNoCall ==
    \A r \in Reqs :
        (Done(r) /\ resp[r].code = HTTP_200_OK) => calls[r] = 0

\* C6 (amended): a request that returns 200 added no row and returns a row
\* another request inserted; on the fast-check path it made no RPC call, on
\* the conflict path it made exactly one, whose hash is stored nowhere by it.
C6_ReplayCallsByPath ==
    \A r \in Reqs :
        (Done(r) /\ resp[r].code = HTTP_200_OK) =>
            /\ committed[r] = 0
            /\ path[r] \in {"fast", "conflict"}
            /\ \E q \in Reqs : q # r /\ committed[q] = resp[r].tx_id
            /\ path[r] = "fast" => (calls[r] = 0 /\ rpcHash[r] = 0)
            /\ path[r] = "conflict" => (calls[r] = 1 /\ rpcHash[r] # 0)

\* A request returned 200 from the conflict path with a hash of its own
\* that differs from the one in its response.
C6_Witness ==
    \E r \in Reqs :
        /\ Done(r) /\ resp[r].code = HTTP_200_OK /\ path[r] = "conflict"
        /\ rpcHash[r] # resp[r].tx_hash

\* ---- C7 ----
\* C7: a request whose fast lookup runs (its key is non-empty) after a row of
\* its triple was committed returns that row with 200 from the lookup, makes
\* no RPC call and attempts no insert; a row returned by the fast lookup is
\* always a row of the request's own triple.
C7_LookupAfterCommitReplays ==
    /\ \A r \in Reqs : \A q \in CommittedBefore(r) :
         Truthy(request[r].idempotency_key) =>
            /\ Done(r) /\ path[r] = "fast"
            /\ resp[r].code = HTTP_200_OK
            /\ resp[r].tx_id = committed[q]
            /\ resp[r].tx_hash = rpcHash[q]
            /\ calls[r] = 0 /\ tx_hash[r] = 0 /\ committed[r] = 0
    /\ \A r \in Reqs : path[r] = "fast" =>
         \E q \in Reqs : /\ q # r /\ SameTriple(r, q)
                         /\ committed[q] = resp[r].tx_id

\* A request started after the creator of its triple's row had returned,
\* and was answered by the fast lookup.
C7_Witness ==
    \E r \in Reqs : \E q \in CommittedBefore(r) :
        /\ path[r] = "fast"
        /\ resp[r].tx_id = committed[q]

\* ---- C8 ----
\* C8: no step changes or removes a row; the row of a keyed triple stays the
\* only row of that triple, and a row that a step adds carries the hash
\* returned to the request whose insert it is.
C8_WriteOnce ==
    [][/\ \A t \in store : t \in store'
       /\ \A t \in store : t.idempotency_key # None => Matching(store', t) = {t}
       /\ \A t \in store' \ store :
            \E r \in Reqs : /\ committed[r] = 0 /\ committed'[r] = t.tx_id
                            /\ t.tx_hash = rpcHash[r] /\ rpcHash[r] # 0]_vars

\* The row of a keyed triple is still the first one committed after a
\* racing request with a different hash lost its insert and returned.
C8_Witness ==
    \E r \in Reqs : \E t \in store :
        /\ Keyed(r) /\ RowsOf(r) = {t}
        /\ path[r] = "conflict"
        /\ tx_hash[r] # t.tx_hash
        /\ resp[r].tx_hash = t.tx_hash

\* ---- C9 ----
\* C9: a request attempts its insert only after its RPC call has returned a
\* hash, and every row carries the hash returned by the completed call of
\* the request that inserted it.
C9_HashFromCompletedCall ==
    /\ \A r \in Reqs :
         (pc[r] \in {"write", "requery"} \/ committed[r] # 0) =>
             /\ calls[r] = 1 /\ rpcHash[r] \in Hashes /\ tx_hash[r] = rpcHash[r]
    /\ \A t \in store :
         /\ t.tx_hash \in Hashes
         /\ \E r \in Reqs : /\ committed[r] = t.tx_id
                            /\ calls[r] = 1
                            /\ rpcHash[r] = t.tx_hash

\* A row is in the store and it carries the hash of its inserter's call.
C9_Witness ==
    \E t \in store : \E r \in Reqs :
        /\ committed[r] = t.tx_id
        /\ rpcHash[r] = t.tx_hash

\* ---- C10 ----
\* The requests of r's triple that had failed in the RPC call when r started.
FailedBefore(r) ==
    {q \in before[r] : SameTriple(r, q) /\ path[q] = "rpc_error"}

\* C10: the step in which a request's RPC call fails leaves the store as it
\* is; the request ends with an error, without a hash and without a row.  A
\* later request with the same key that starts when its triple has only
\* failed requests behind it is not answered by the fast check: it goes on
\* to an RPC call of its own.
C10_FailedCallWritesNothing ==
    /\ [][\A r \in Reqs :
            (path[r] # "rpc_error" /\ path'[r] = "rpc_error") =>
                (store' = store /\ nextId' = nextId)]_vars
    /\ [](\A r \in Reqs : path[r] = "rpc_error" =>
            /\ Done(r) /\ resp[r].code = HTTP_500
            /\ calls[r] = 1 /\ rpcHash[r] = 0 /\ committed[r] = 0)
    /\ [](\A r \in Reqs :
            (Keyed(r) /\ FailedBefore(r) # {} /\ CommittedBefore(r) = {})
                => /\ path[r] # "fast"
                   /\ pc[r] = "rpc" \/ calls[r] = 1)

\* A request failed in the RPC call; a retry with the same key started
\* afterwards, made a call of its own and created the row.
C10_Witness ==
    \E r \in Reqs : \E q \in FailedBefore(r) :
        /\ Keyed(r) /\ CommittedBefore(r) = {}
        /\ calls[r] = 1 /\ committed[r] # 0
        /\ resp[q].code = HTTP_500

\* ---- C11 ----
\* C11: a request whose insert was rejected as a duplicate has no row of its
\* own: the rows of its triple are rows other requests inserted.  When it
\* has finished it has returned one of them with 200, never an error.
C11_ConflictAbsorbed ==
    \A r \in Reqs :
        (pc[r] = "requery" \/ path[r] \in {"conflict", "integrity_error"}) =>
            /\ committed[r] = 0
            /\ RowsOf(r) # {}
            /\ \A t \in RowsOf(r) : \E q \in Reqs : q # r /\ committed[q] = t.tx_id
            /\ Done(r) => /\ path[r] = "conflict"
                          /\ resp[r].code = HTTP_200_OK
                          /\ resp[r].detail = ""
                          /\ \E t \in RowsOf(r) : /\ resp[r].tx_id = t.tx_id
                                                  /\ resp[r].tx_hash = t.tx_hash
                                                  /\ resp[r].status = t.status

\* A request whose insert was rejected has finished with 200.
C11_Witness ==
    \E r \in Reqs :
        /\ path[r] = "conflict" /\ Done(r)
        /\ resp[r].code = HTTP_200_OK
        /\ calls[r] = 1 /\ committed[r] = 0

\* ---- C12 ----
\* C12: a request without an idempotency key is answered neither by the
\* fast check nor by the conflict path; when it returns successfully it has
\* made its own RPC call and inserted its own row, returns 201 with that
\* row, and the row's tx_id is the tx_id of no other row.
C12_NoKeyNoDedup ==
    /\ \A r \in Reqs :
         (Started(r) /\ request[r].idempotency_key = None) =>
            /\ pc[r] # "requery"
            /\ path[r] \notin {"fast", "conflict", "integrity_error"}
            /\ Success(r) =>
                 /\ resp[r].code = HTTP_201
                 /\ calls[r] = 1
                 /\ committed[r] # 0
                 /\ resp[r].tx_id = committed[r]
                 /\ resp[r].tx_hash = rpcHash[r]
                 /\ \A q \in Reqs : q # r => committed[q] # committed[r]
    /\ \A t, u \in store : t.tx_id = u.tx_id => t = u

\* Two requests without a key and with otherwise identical bodies both
\* returned 201, with different tx_id.
C12_Witness ==
    \E r, q \in Reqs :
        /\ r # q /\ Started(r) /\ Started(q)
        /\ request[r] = request[q] /\ request[r].idempotency_key = None
        /\ Success(r) /\ Success(q)
        /\ resp[r].tx_id # resp[q].tx_id
        /\ Cardinality(RowsOf(r)) = 2

\* ---- C13 ----
\* C13: an insert is rejected only when a request of the same triple has
\* committed a row; a successful response carries a row inserted by a request
\* of the same triple; a request that shares its triple with no other request
\* and returns successfully has created its own row and returns 201.
C13_DistinctTriplesIndependent ==
    \A r \in Reqs :
        /\ (pc[r] = "requery" \/ path[r] \in {"conflict", "integrity_error"}) =>
              \E q \in Reqs : q # r /\ SameTriple(r, q) /\ committed[q] # 0
        /\ Success(r) =>
              \E q \in Reqs : SameTriple(r, q) /\ committed[q] = resp[r].tx_id
        /\ (Success(r) /\ Group(r) = {r}) =>
              /\ resp[r].code = HTTP_201
              /\ committed[r] = resp[r].tx_id
              /\ RowsOf(r) = {t \in store : t.tx_id = committed[r]}

\* Two concurrent requests that differ in one component of the triple only
\* (to_address, value_wei and data are the same) each created a row.
C13_Witness ==
    \E r, q \in Reqs :
        /\ r # q /\ Started(r) /\ Started(q) /\ ~SameTriple(r, q)
        /\ q \notin before[r] /\ r \notin before[q]
        /\ request[r].idempotency_key # None /\ request[q].idempotency_key # None
        /\ request[r].to_address = request[q].to_address
        /\ request[r].value_wei = request[q].value_wei
        /\ request[r].data = request[q].data
        /\ resp[r].code = HTTP_201 /\ resp[q].code = HTTP_201
        /\ committed[r] # committed[q]

\* ---- C14 ----
\* C14: a request enters the re-query only from a write that the unique
\* constraint rejects.  The step in which its write fails otherwise ends the
\* request with an error and leaves the store as it is; the request made one
\* RPC call, has no row, returns no 200, and takes no further step.
C14_StoreFailureFatal ==
    /\ [][\A r \in Reqs :
            /\ (pc[r] = "write" /\ pc'[r] = "requery") =>
                   ViolatesUnique(store, Transaction(nextId, request[r], tx_hash[r]))
            /\ (path[r] # "store_error" /\ path'[r] = "store_error") =>
                   /\ pc[r] = "write" /\ pc'[r] = "done"
                   /\ store' = store /\ nextId' = nextId
            /\ path[r] = "store_error" =>
                   /\ pc'[r] = "done" /\ resp'[r] = resp[r]
                   /\ calls'[r] = calls[r] /\ committed'[r] = 0]_vars
    /\ [](\A r \in Reqs : path[r] = "store_error" =>
            /\ Done(r) /\ resp[r].code = HTTP_500
            /\ resp[r].detail # "Database integrity error"
            /\ calls[r] = 1 /\ committed[r] = 0)

\* A write failed for a reason other than the constraint while a row of the
\* request's triple was in the store; the request ended with an error.
C14_Witness ==
    \E r \in Reqs :
        /\ path[r] = "store_error" /\ Done(r)
        /\ resp[r].code = HTTP_500
        /\ Keyed(r) /\ RowsOf(r) # {}

\* ---- C15 ----
\* An address as the claim has it: "0x" followed by exactly 40 hex digits.
ExactAddress(v) ==
    /\ Len(v) = 42
    /\ v[1] = "0" /\ v[2] = "x"
    /\ \A i \in 3..42 : v[i] \in HexDigits

\* A body with at least one of the defects the claim lists.
Defective(body) ==
    \/ body.chain \notin {"ethereum", "polygon", "sepolia"}
    \/ ~ExactAddress(body.from_address)
    \/ ~ExactAddress(body.to_address)
    \/ body.value_wei < 0
    \/ ~(Len(body.data) >= 2 /\ body.data[1] = "0" /\ body.data[2] = "x")

\* C15: a posted body with a chain outside the allow-set, an address that is
\* not "0x" plus 40 hex digits, a negative value_wei or a data field without
\* the "0x" prefix causes no RPC call and no row, and the response to it
\* is 422.
C15_DefectiveBodyRejected ==
    \A r \in Reqs :
        (Started(r) /\ Defective(request[r])) =>
            /\ calls[r] = 0 /\ committed[r] = 0
            /\ Done(r) => resp[r].code = HTTP_422

C17_ResponseIsStoredRow ==
    /\ [][\A r \in Reqs :
            (~Done(r) /\ pc'[r] = "done"
             /\ resp'[r].code \in {HTTP_200_OK, HTTP_201}) =>
                /\ path'[r] \in {"fast", "conflict", "created"}
                /\ resp'[r].status = "submitted"
                /\ \E t \in store' : /\ t.tx_id = resp'[r].tx_id
                                     /\ t.tx_hash = resp'[r].tx_hash
                                     /\ t.status = resp'[r].status
                                     /\ t.chain = request'[r].chain
                                     /\ t.from_address = request'[r].from_address
                                     /\ t.idempotency_key = request'[r].idempotency_key]_vars
    /\ [](\A r \in Reqs : Success(r) =>
            \E t \in store : /\ t.tx_id = resp[r].tx_id
                             /\ t.tx_hash = resp[r].tx_hash
                             /\ t.status = "submitted")
    /\ [](\A r \in Reqs : path[r] = "conflict" =>
            /\ committed[r] = 0
            /\ \A t \in store : t.tx_id = resp[r].tx_id =>
                  /\ resp[r].tx_hash = t.tx_hash
                  /\ \E q \in Reqs : /\ q # r /\ committed[q] = t.tx_id
                                     /\ rpcHash[q] = t.tx_hash)

\* The winner of an insert race returned its row, and the loser, whose own
\* hash differs, returned the hash of that stored row.
C17_Witness ==
    /\ \E r \in Reqs : path[r] = "created" /\ Success(r)
    /\ \E r \in Reqs : \E t \in store :
         /\ path[r] = "conflict" /\ Success(r)
         /\ t.tx_id = resp[r].tx_id
         /\ tx_hash[r] # t.tx_hash
         /\ resp[r].tx_hash = t.tx_hash

\* ---- C18 ----
\* C18: while a request is between the rejection of its insert and its
\* re-query, the store holds a row of its triple; no request ends with the
\* "Database integrity error" response.
C18_IntegrityErrorUnreachable ==
    \A r \in Reqs :
        /\ pc[r] = "requery" => Matching(store, request[r]) # {}
        /\ path[r] # "integrity_error"
        /\ resp[r].detail # "Database integrity error"

\* Two requests' inserts were in flight for one triple; the store accepted
\* one, rejected the other, and the re-query of the loser found the row.
C18_Witness ==
    \E r, q \in Reqs :
        /\ r # q /\ SameTriple(r, q)
        /\ q \notin before[r] /\ r \notin before[q]
        /\ committed[q] # 0
        /\ path[r] = "conflict"
        /\ resp[r].tx_id = committed[q]

\* ---- C19 ----
\* The stages of the handler in the order of the code.
Stage(p) ==
    CASE p = "idle" -> 0 [] p = "rpc" -> 1 [] p = "write" -> 2
      [] p = "requery" -> 3 [] p = "done" -> 4

\* C19: a request moves through the stages lookup, RPC call, insert and
\* re-query forwards only, so it performs each at most once and never starts
\* over; it makes at most one RPC call; while it has not finished it always
\* has a step it can take, whatever the other requests are doing; it
\* eventually finishes, with exactly one of created (201), replay (200) or
\* an error, and that outcome does not change afterwards.
C19_TerminatesWithoutWaiting ==
    /\ [][\A r \in Reqs :
            /\ pc'[r] # pc[r] => Stage(pc'[r]) > Stage(pc[r])
            /\ calls'[r] # calls[r] => (pc[r] = "rpc" /\ calls'[r] = 1)
            /\ Done(r) => (pc'[r] = "done" /\ resp'[r] = resp[r] /\ path'[r] = path[r])]_vars
    /\ [](\A r \in Reqs : (Started(r) /\ ~Done(r)) => ENABLED Run(r))
    /\ [](\A r \in Reqs : Done(r) =>
            /\ resp[r].code \in {HTTP_201, HTTP_200_OK, HTTP_500}
            /\ resp[r].code = HTTP_201 <=> path[r] = "created"
            /\ resp[r].code = HTTP_200_OK <=> path[r] \in {"fast", "conflict"}
            /\ resp[r].code = HTTP_500 <=>
                  path[r] \in {"rpc_error", "store_error", "integrity_error"})
    /\ \A r \in Reqs : Started(r) ~> Done(r)

\* A request started, made its call, inserted and returned 201 while a
\* request of the same triple that had started before it was still at its
\* RPC call.
C19_Witness ==
    \E r, q \in Reqs :
        /\ q < r /\ SameTriple(r, q)
        /\ pc[q] = "rpc"
        /\ Done(r) /\ path[r] = "created" /\ calls[r] = 1

====
